---- MODULE Spec2Model ----
(***************************************************************************)
(* Model of the prospr core: the Protein conformation object               *)
(* (src/prospr/core/src/protein.cpp) and the depth-first search drivers    *)
(* (src/prospr/core/src/depth_first.cpp and the branch-and-bound variant). *)
(*                                                                         *)
(* C++ vectors are modelled as TLA+ sequences, so the C++ index k is the   *)
(* TLA+ index k+1: an occupancy entry std::vector<int>{index, next_move}   *)
(* is <<index, next_move>>, entry[1] in the source is entry[2] here.       *)
(***************************************************************************)
EXTENDS Integers, Sequences, FiniteSets, TLC

\* Longest amino-acid sequence given to the Protein interface specification.
MaxLen == 3

\* Largest value of the changes counter followed by the interface specification.
MaxChanges == 1

\* Largest absolute value of score followed by the interface specification.
MaxAbsScore == 2

\* Most calls that fail, or that take back a move other than the one that
\* placed the head, that a caller of the interface specification makes.
MaxMisuse == 1

\* Longest amino-acid sequence given to the search drivers on the square
\* lattice; on the cubic lattice the sequences are one shorter.
MaxSearchLen == 6

\* Lattice dimensions given to the constructor.
Dims == {2}

\* Lattice dimensions given to the constructor before a search.
SearchDims == {2, 3}

\* The first move fixed by the drivers (depth_first.cpp, "int move = 2").
FirstMove == 2

\* The weight of the canonical bond table, {"HH", -1} (core_module.cpp).
HHWeight == -1

VARIABLES
    sequence,        \* Protein::sequence, a sequence over {"H", "P"}
    dim,             \* Protein::dim
    protein,         \* the mutable fields of the Protein the calls act on
    call,            \* the last interface call: <<name, argument, track, outcome>>
    trail,           \* the caller's record: the moves it placed and did not take back
    misuse,          \* number of calls that failed or did not match the trail
    pc,              \* position of the driver / of the caller
    algo,            \* which driver runs: "dfs" or "bnb"
    arg,             \* the caller's Protein, passed by value to the drivers
    arg_fresh,       \* TRUE iff arg is a Protein straight from the constructor
    move,            \* depth_first: int move
    all_moves,       \* depth_first: std::vector<int> all_moves
    dfs_stack,       \* depth_first: std::stack<std::vector<int>> dfs_stack
    prev_moves,      \* depth_first: std::stack<int> prev_moves
    best_score,      \* depth_first: int best_score
    best_hash,       \* depth_first: std::vector<int> best_hash
    remaining_moves, \* depth_first: std::vector<int> remaining_moves
    placed_amino,    \* depth_first: bool placed_amino
    dfs_out          \* what depth_first gave back to the caller (kept for the bnb run)

protein_vars == <<sequence, dim, protein, call, trail, misuse>>
driver_vars == <<pc, algo, arg, arg_fresh, move, all_moves, dfs_stack, prev_moves,
                 best_score, best_hash, remaining_moves, placed_amino, dfs_out>>
vars == <<sequence, dim, protein, call, trail, misuse, pc, algo, arg, arg_fresh, move, all_moves,
          dfs_stack, prev_moves, best_score, best_hash, remaining_moves,
          placed_amino, dfs_out>>

----------------------------------------------------------------------------
(* Move algebra, as protein.cpp writes it inline.                          *)

Abs(x) == IF x < 0 THEN -x ELSE x

\* move / abs(move) for a non-zero move
Sign(m) == IF m < 0 THEN -1 ELSE 1

\* pos[abs(move) - 1] += move / abs(move)
Step(pos, m) == [pos EXCEPT ![Abs(m)] = @ + Sign(m)]

\* pos[abs(move) - 1] -= move / abs(move)
StepBack(pos, m) == [pos EXCEPT ![Abs(m)] = @ - Sign(m)]

\* last_pos.assign(dim, 0)
Origin(d) == [i \in 1..d |-> 0]

\* The non-zero moves of a d-dimensional lattice.
Moves(d) == {m \in (0 - d)..d : m # 0}

\* Two lattice positions are adjacent.
Adjacent(p, q) == \E m \in Moves(Len(p)) : Step(p, m) = q

\* All sequences over {"H", "P"} of the lengths in lens.
SeqsOver(lens) == UNION {[1..n -> {"H", "P"}] : n \in lens}

----------------------------------------------------------------------------
(* Protein                                                                 *)

\* h_idxs: the indices of the "H" characters (constructor, lines 22-28).
h_idxs == {i \in 0..(Len(sequence) - 1) : sequence[i + 1] = "H"}

\* Protein::is_hydro
is_hydro(index) == index \in h_idxs

\* Protein::Protein. The constructor stores the record of amino acid 0 at the
\* origin of space (line 36) while cur_len stays 0.
Construct(d) ==
    [space     |-> (Origin(d) :> <<0, 0>>),
     cur_len   |-> 0,
     last_move |-> 0,
     last_pos  |-> Origin(d),
     score     |-> 0,
     changes   |-> 0]

\* Protein::reset
Reset(P) ==
    [space     |-> <<>>,
     cur_len   |-> 0,
     last_move |-> 0,
     last_pos  |-> Origin(dim),
     score     |-> 0,
     changes   |-> 0]

\* reset_conformation that clears the counter as reset does.
ResetConformationClearsChanges(P) ==
    [space     |-> <<>>,
     cur_len   |-> 0,
     last_move |-> 0,
     last_pos  |-> Origin(dim),
     score     |-> 0,
     changes   |-> 0]

\* Protein::reset_conformation
ResetConformation(P) ==
    [space     |-> <<>>,
     cur_len   |-> 0,
     last_move |-> 0,
     last_pos  |-> Origin(dim),
     score     |-> 0,
     changes   |-> P.changes]

\* Protein::is_valid, for a non-zero move within the dimension
is_valid(P, m) == Step(P.last_pos, m) \notin DOMAIN P.space

\* Protein::change_score: every direction but the reverse of move is looked
\* at from last_pos; each occupied neighbour holding an "H" index adds weight.
change_score(P, m, weight) ==
    LET moves == {i \in (0 - dim)..dim : i # 0 /\ i # 0 - m}
        hits  == {i \in moves :
                     /\ Step(P.last_pos, i) \in DOMAIN P.space
                     /\ is_hydro(P.space[Step(P.last_pos, i)][1])}
    IN  [P EXCEPT !.score = @ + weight * Cardinality(hits)]

\* Result of a call: the Protein afterwards and how the call ended:
\* "none" (returned), "overlap" (std::runtime_error thrown by place_amino),
\* "ub" (undefined behaviour: an out-of-bounds vector access or a division
\* by zero; the process does not continue).
Ret(P, exc) == [p |-> P, exc |-> exc]

\* Protein::place_amino
place_amino(P, m, track) ==
    LET P1 == IF track THEN [P EXCEPT !.changes = @ + 1] ELSE P
    IN
    IF m # 0 /\ (Abs(m) > dim \/ P1.last_pos \notin DOMAIN P1.space)
    THEN \* space[last_pos] inserts an empty vector and [1] writes past its
         \* end, or last_pos[abs(move) - 1] is past the end of last_pos
         Ret(P1, "ub")
    ELSE
    LET P2 == IF m # 0
              THEN [P1 EXCEPT !.space[P1.last_pos][2] = m,
                              !.last_pos = Step(P1.last_pos, m)]
              ELSE P1
    IN
    IF P2.last_pos \in DOMAIN P2.space
    THEN Ret(P2, "overlap")
    ELSE
    LET P3 == IF m # 0 /\ is_hydro(P2.cur_len)
              THEN change_score(P2, m, -1)
              ELSE P2
    IN  Ret([P3 EXCEPT !.space = (P3.last_pos :> <<P3.cur_len, 0>>) @@ @,
                       !.last_move = m,
                       !.cur_len = @ + 1],
            "none")

\* m.erase(k)
MapErase(f, k) == [x \in (DOMAIN f) \ {k} |-> f[x]]

\* Protein::remove_amino
remove_amino(P, m) ==
    LET P1 == [P EXCEPT !.cur_len = @ - 1]
        P2 == IF m # 0 /\ is_hydro(P1.cur_len)
              THEN change_score(P1, m, 1)
              ELSE P1
        P3 == [P2 EXCEPT !.space = MapErase(@, P2.last_pos)]
    IN
    IF m = 0 \/ Abs(m) > dim
    THEN \* move / abs(move) divides by zero and last_pos[-1] is out of bounds
         Ret(P3, "ub")
    ELSE
    LET P4 == [P3 EXCEPT !.last_pos = StepBack(@, m)]
    IN
    IF P4.last_pos \notin DOMAIN P4.space
    THEN \* space[last_pos] inserts an empty vector and [1] writes past its end
         Ret(P4, "ub")
    ELSE Ret([P4 EXCEPT !.space[P4.last_pos][2] = 0], "none")

\* The loop of Protein::hash_fold. It ends when an entry without outgoing
\* move is met ("none"), when space.at throws because the walk leaves the
\* occupied positions ("out_of_range"), and never when the outgoing moves
\* form a cycle ("diverges": more steps than there are entries).
RECURSIVE HashFoldWalk(_, _, _, _, _)
HashFoldWalk(space, cur_pos, item, fold_hash, fuel) ==
    IF item[2] = 0 THEN [fold |-> fold_hash, exc |-> "none"]
    ELSE IF fuel = 0 THEN [fold |-> fold_hash, exc |-> "diverges"]
    ELSE LET next_pos == Step(cur_pos, item[2])
             next_hash == Append(fold_hash, item[2])
         IN  IF next_pos \notin DOMAIN space
             THEN [fold |-> next_hash, exc |-> "out_of_range"]
             ELSE HashFoldWalk(space, next_pos, space[next_pos], next_hash, fuel - 1)

\* Protein::hash_fold
hash_fold(P) ==
    IF Origin(dim) \in DOMAIN P.space
    THEN HashFoldWalk(P.space, Origin(dim), P.space[Origin(dim)], <<>>,
                      Cardinality(DOMAIN P.space))
    ELSE [fold |-> <<>>, exc |-> "none"]

\* The loop of Protein::set_hash: an exception of place_amino ends it.
RECURSIVE PlaceAll(_, _, _)
PlaceAll(R, fold_hash, track) ==
    IF R.exc # "none" \/ fold_hash = <<>> THEN R
    ELSE PlaceAll(place_amino(R.p, Head(fold_hash), track), Tail(fold_hash), track)

\* Protein::set_hash
set_hash(P, fold_hash, track) ==
    PlaceAll(place_amino(ResetConformation(P), 0, track), fold_hash, track)

----------------------------------------------------------------------------
(* The Protein interface under arbitrary callers.                          *)

NoDriver ==
    /\ pc = "api"
    /\ algo = "none"
    /\ arg = <<>>
    /\ arg_fresh = FALSE
    /\ move = 0
    /\ all_moves = <<>>
    /\ dfs_stack = <<>>
    /\ prev_moves = <<>>
    /\ best_score = 0
    /\ best_hash = <<>>
    /\ remaining_moves = <<>>
    /\ placed_amino = FALSE
    /\ dfs_out = <<>>

Init ==
    /\ sequence \in SeqsOver(1..MaxLen)
    /\ dim \in Dims
    /\ protein = Construct(dim)
    /\ call = <<"construct", 0, FALSE, "none">>
    /\ trail = <<>>
    /\ misuse = 0
    /\ NoDriver

\* The process is alive: no call ran into undefined behaviour.
Alive == call[4] # "ub"

\* The states followed: score and the head's coordinates stay in range.
InRange(P) ==
    /\ Abs(P.score) <= MaxAbsScore
    /\ \A i \in 1..dim : Abs(P.last_pos[i]) <= Len(sequence)

\* The caller keeps to the sequence length and to the followed counter range.
CanPlace(track) ==
    /\ protein.cur_len < Len(sequence)
    /\ track => protein.changes < MaxChanges

\* The first k elements of s.
Prefix(s, k) == SubSeq(s, 1, k)

PlaceAmino(m, track) ==
    /\ Alive
    /\ CanPlace(track)
    /\ LET r == place_amino(protein, m, track)
       IN  /\ InRange(r.p)
           /\ r.exc = "none" \/ misuse < MaxMisuse
           /\ protein' = r.p
           /\ call' = <<"place_amino", m, track, r.exc>>
           /\ trail' = IF r.exc = "none" THEN Append(trail, m) ELSE trail
           /\ misuse' = IF r.exc = "none" THEN misuse ELSE misuse + 1
    /\ UNCHANGED <<sequence, dim>>
    /\ UNCHANGED driver_vars

\* remove_amino(m) matches the caller's record when m is the move of the
\* last placement that was not taken back.
Matches(m) == trail # <<>> /\ m = trail[Len(trail)]

RemoveAmino(m) ==
    /\ Alive
    /\ Matches(m) \/ misuse < MaxMisuse
    /\ LET r == remove_amino(protein, m)
       IN  /\ InRange(r.p)
           /\ protein' = r.p
           /\ call' = <<"remove_amino", m, FALSE, r.exc>>
    /\ trail' = IF trail = <<>> THEN trail ELSE Prefix(trail, Len(trail) - 1)
    /\ misuse' = IF Matches(m) THEN misuse ELSE misuse + 1
    /\ UNCHANGED <<sequence, dim>>
    /\ UNCHANGED driver_vars

DoReset ==
    /\ Alive
    /\ protein' = Reset(protein)
    /\ call' = <<"reset", 0, FALSE, "none">>
    /\ trail' = <<>>
    /\ UNCHANGED <<sequence, dim, misuse>>
    /\ UNCHANGED driver_vars

DoResetConformation ==
    /\ Alive
    /\ protein' = ResetConformation(protein)
    /\ call' = <<"reset_conformation", 0, FALSE, "none">>
    /\ trail' = <<>>
    /\ UNCHANGED <<sequence, dim, misuse>>
    /\ UNCHANGED driver_vars

\* Folds a caller may hand to set_hash: move lists that fit the sequence.
Folds == UNION {[1..k -> Moves(dim)] : k \in 0..(Len(sequence) - 1)}

\* The caller's record after set_hash: the placements that succeeded.
TrailOf(r, fold_hash) == Prefix(<<0>> \o fold_hash, r.p.cur_len)

SetHash(fold_hash, track) ==
    /\ Alive
    /\ track => protein.changes + Len(fold_hash) + 1 <= MaxChanges
    /\ LET r == set_hash(protein, fold_hash, track)
       IN  /\ r.exc = "none" \/ misuse < MaxMisuse
           /\ protein' = r.p
           /\ call' = <<"set_hash", fold_hash, track, r.exc>>
           /\ trail' = TrailOf(r, fold_hash)
           /\ misuse' = IF r.exc = "none" THEN misuse ELSE misuse + 1
    /\ UNCHANGED <<sequence, dim>>
    /\ UNCHANGED driver_vars

\* place_amino(m, track) directly followed by remove_amino(m), for a
\* placement that succeeds.
PlaceThenRemove(m, track) ==
    /\ Alive
    /\ CanPlace(track)
    /\ LET r1 == place_amino(protein, m, track)
       IN  /\ r1.exc = "none"
           /\ LET r2 == remove_amino(r1.p, m)
              IN  /\ InRange(r2.p)
                  /\ protein' = r2.p
                  /\ call' = <<"place_remove", m, track, r2.exc>>
    /\ UNCHANGED <<sequence, dim, trail, misuse>>
    /\ UNCHANGED driver_vars

\* set_hash(hash_fold()): hash_fold either returns a fold that is handed to
\* set_hash, throws std::out_of_range, or never returns.
RoundTrip ==
    /\ Alive
    /\ LET h == hash_fold(protein)
       IN  IF h.exc = "none"
           THEN LET r == set_hash(protein, h.fold, FALSE)
                IN  /\ protein' = r.p
                    /\ call' = <<"round_trip", h.fold, FALSE, r.exc>>
                    /\ trail' = TrailOf(r, h.fold)
           ELSE /\ protein' = protein
                /\ call' = <<"round_trip", h.fold, FALSE, h.exc>>
                /\ trail' = trail
    /\ UNCHANGED <<sequence, dim, misuse>>
    /\ UNCHANGED driver_vars

Next ==
    \/ \E m \in Moves(dim) \cup {0}, track \in BOOLEAN : PlaceAmino(m, track)
    \/ \E m \in Moves(dim) \cup {0} : RemoveAmino(m)
    \/ DoReset
    \/ DoResetConformation
    \/ \E fold_hash \in Folds, track \in BOOLEAN : SetHash(fold_hash, track)
    \/ \E m \in Moves(dim) \cup {0}, track \in BOOLEAN : PlaceThenRemove(m, track)
    \/ RoundTrip

Spec == Init /\ [][Next]_vars

----------------------------------------------------------------------------
(* The search drivers.                                                     *)

\* s without its last element / the last element of s (vector back, stack top)
Front(s) == SubSeq(s, 1, Len(s) - 1)
Last(s) == s[Len(s)]

\* std::remove + erase: s without the elements equal to x
Without(s, x) == SelectSeq(s, LAMBDA e : e # x)

\* The integers lo..hi in increasing order, as a vector.
RECURSIVE Range(_, _)
Range(lo, hi) == IF lo > hi THEN <<>> ELSE <<lo>> \o Range(lo + 1, hi)

\* The moves 1..dim with first_move left in.
SeedMovesKeepsFirst(first_move) == Range(1, dim)

\* initialize_vars, lines 20-26: the moves 1..dim without first_move.
SeedMoves(first_move) == Without(Range(1, dim), first_move)

\* initialize_vars, lines 35-43: the moves -dim..dim without 0.
AllMoves == Without(Range(0 - dim, dim), 0)

\* initialize_vars, lines 28-33: k rounds of place_amino(2), push, push.
\* S is [r |-> result of the last place_amino, st |-> dfs_stack, pm |-> prev_moves].
RECURSIVE SeedLoop(_, _, _)
SeedLoop(S, frontier, k) ==
    IF k = 0 \/ S.r.exc # "none" THEN S
    ELSE LET r == place_amino(S.r.p, FirstMove, TRUE)
         IN  IF r.exc # "none"
             THEN [S EXCEPT !.r = r]
             ELSE SeedLoop([r  |-> r,
                            st |-> Append(S.st, frontier),
                            pm |-> Append(S.pm, FirstMove)],
                           frontier, k - 1)

\* How a driver leaves when a call it makes does not return.
Leave(exc) == IF exc = "ub" THEN "crashed"
              ELSE IF exc = "diverges" THEN "hung"
              ELSE "threw"

\* Position in depth_first once the loop of lines 113-120 was tested:
\* another round of it, the break of line 124, or the test of line 97.
AfterBack(placed, rem, stack) ==
    IF ~placed /\ rem = <<>> /\ stack # <<>> THEN "back"
    ELSE IF rem = <<>> THEN "loop"
    ELSE IF placed THEN "loop"
    ELSE "try"

\* Position in depth_first once the loop of lines 99-110 was tested.
AfterTry(placed, rem, stack) ==
    IF ~placed /\ rem # <<>> THEN "try"
    ELSE AfterBack(placed, rem, stack)

\* The locals of a driver before it declares them.
NoLocals ==
    /\ move' = 0
    /\ all_moves' = <<>>
    /\ dfs_stack' = <<>>
    /\ prev_moves' = <<>>
    /\ best_score' = 0
    /\ best_hash' = <<>>
    /\ remaining_moves' = <<>>
    /\ placed_amino' = FALSE

InitSearch ==
    /\ dim \in SearchDims
    /\ sequence \in SeqsOver(1..(MaxSearchLen + 2 - dim))
    /\ protein = Construct(dim)
    /\ call = <<"construct", 0, FALSE, "none">>
    /\ trail = <<>>
    /\ misuse = 0
    /\ pc = "idle"
    /\ algo = "none"
    /\ arg = <<>>
    /\ arg_fresh = TRUE
    /\ move = 0
    /\ all_moves = <<>>
    /\ dfs_stack = <<>>
    /\ prev_moves = <<>>
    /\ best_score = 0
    /\ best_hash = <<>>
    /\ remaining_moves = <<>>
    /\ placed_amino = FALSE
    /\ dfs_out = <<>>

\* The caller resets the Protein before it hands it to a driver.
CallerReset ==
    /\ pc = "idle"
    /\ arg_fresh
    /\ protein' = Reset(protein)
    /\ arg_fresh' = FALSE
    /\ call' = <<"reset", 0, FALSE, "none">>
    /\ UNCHANGED <<sequence, dim, trail, misuse, pc, algo, arg, move, all_moves,
                   dfs_stack, prev_moves, best_score, best_hash, remaining_moves,
                   placed_amino, dfs_out>>

\* depth_first(protein): the Protein is passed by value.
CallDepthFirst ==
    /\ pc = "idle"
    /\ algo' = "dfs"
    /\ arg' = protein
    /\ pc' = "enter"
    /\ UNCHANGED <<sequence, dim, protein, call, trail, misuse, arg_fresh, move,
                   all_moves, dfs_stack, prev_moves, best_score, best_hash,
                   remaining_moves, placed_amino, dfs_out>>

\* A driver has left: it returned, or an exception reached the caller.
Left == pc \in {"returned", "threw"}

\* depth_first_bnb(protein), called with the same Protein after depth_first.
CallDepthFirstBnb ==
    /\ Left
    /\ algo = "dfs"
    /\ dfs_out' = [pc |-> pc, p |-> protein]
    /\ algo' = "bnb"
    /\ protein' = arg
    /\ pc' = "enter"
    /\ NoLocals
    /\ UNCHANGED <<sequence, dim, call, trail, misuse, arg, arg_fresh>>

\* depth_first, lines 48-56.
DfPreamble ==
    /\ pc = "enter"
    /\ LET max_length == Len(sequence)
           r1 == IF max_length >= 1 THEN place_amino(protein, 0, TRUE)
                 ELSE Ret(protein, "none")
           r2 == IF r1.exc = "none" /\ max_length >= 2
                 THEN place_amino(r1.p, FirstMove, TRUE)
                 ELSE r1
       IN  /\ protein' = r2.p
           /\ call' = <<"place_amino", IF r1.exc = "none" /\ max_length >= 2
                                       THEN FirstMove ELSE 0, TRUE, r2.exc>>
           /\ pc' = IF r2.exc # "none" THEN Leave(r2.exc)
                    ELSE IF max_length < 3 THEN "returned"
                    ELSE "init"
    /\ UNCHANGED <<sequence, dim, trail, misuse, algo, arg, arg_fresh, move,
                   all_moves, dfs_stack, prev_moves, best_score, best_hash,
                   remaining_moves, placed_amino, dfs_out>>

\* depth_first, lines 58-72, with initialize_vars.
DfInitializeVars ==
    /\ pc = "init"
    /\ LET max_length == Len(sequence)
           S == SeedLoop([r |-> Ret(protein, "none"), st |-> <<>>, pm |-> <<>>],
                         SeedMoves(FirstMove), max_length - 2)
       IN  /\ protein' = S.r.p
           /\ call' = <<"place_amino", FirstMove, TRUE, S.r.exc>>
           /\ dfs_stack' = S.st
           /\ prev_moves' = S.pm
           /\ pc' = IF S.r.exc # "none" THEN Leave(S.r.exc) ELSE "loop"
    /\ move' = FirstMove
    /\ all_moves' = AllMoves
    /\ best_score' = 1
    /\ best_hash' = <<>>
    /\ remaining_moves' = <<>>
    /\ placed_amino' = FALSE
    /\ UNCHANGED <<sequence, dim, trail, misuse, algo, arg, arg_fresh, dfs_out>>

\* The head of the outer loop with "score <= best_score" for the test of
\* line 81: a fold that only ties with the best one replaces it.
DfLoopTopAcceptsTies ==
    /\ pc = "loop"
    /\ algo = "dfs"
    /\ dfs_stack # <<>>
    /\ LET h == hash_fold(protein)
           improves == protein.cur_len = Len(sequence) /\ protein.score <= best_score
           rem == IF protein.cur_len = Len(sequence) THEN <<>>
                  ELSE Without(all_moves, 0 - move)
       IN  /\ best_score' = IF improves THEN protein.score ELSE best_score
           /\ best_hash' = IF improves THEN h.fold ELSE best_hash
           /\ remaining_moves' = rem
           /\ pc' = IF improves /\ h.exc # "none" THEN Leave(h.exc)
                    ELSE AfterTry(FALSE, rem, dfs_stack)
    /\ placed_amino' = FALSE
    /\ UNCHANGED <<sequence, dim, protein, call, trail, misuse, algo, arg, arg_fresh,
                   move, all_moves, dfs_stack, prev_moves, dfs_out>>

\* depth_first, lines 74-95: the head of the outer loop, entered.
DfLoopTop ==
    /\ pc = "loop"
    /\ algo = "dfs"
    /\ dfs_stack # <<>>
    /\ LET h == hash_fold(protein)
           improves == protein.cur_len = Len(sequence) /\ protein.score < best_score
           rem == IF protein.cur_len = Len(sequence) THEN <<>>
                  ELSE Without(all_moves, 0 - move)
       IN  /\ best_score' = IF improves THEN protein.score ELSE best_score
           /\ best_hash' = IF improves THEN h.fold ELSE best_hash
           /\ remaining_moves' = rem
           /\ pc' = IF improves /\ h.exc # "none" THEN Leave(h.exc)
                    ELSE AfterTry(FALSE, rem, dfs_stack)
    /\ placed_amino' = FALSE
    /\ UNCHANGED <<sequence, dim, protein, call, trail, misuse, algo, arg, arg_fresh,
                   move, all_moves, dfs_stack, prev_moves, dfs_out>>

\* The weight the bond table gives to residues i and j.
PairWeight(i, j) == IF is_hydro(i) /\ is_hydro(j) THEN HHWeight ELSE 0

\* b_i: the indices j of the sequence, at least two apart from i, whose pair
\* weight with i is the minimum weight.
BondPartners(i) ==
    {j \in 0..(Len(sequence) - 1) : Abs(i - j) >= 2 /\ PairWeight(i, j) = HHWeight}

RECURSIVE SumBonds(_, _)
SumBonds(lo, hi) ==
    IF lo > hi THEN 0
    ELSE Cardinality(BondPartners(lo)) * HHWeight + SumBonds(lo + 1, hi)

\* Twice max_remaining_bonds[k] = (sum over i in [k, n) of b_i * W_min) / 2.
\* The table is kept doubled so that the halves stay exact.
TwiceMaxRemainingBonds(k) == SumBonds(k, Len(sequence) - 1)

\* The pruning test: score + max_remaining_bonds[cur_len] >= best_score.
PruneBranch(P, best) == 2 * P.score + TwiceMaxRemainingBonds(P.cur_len) >= 2 * best

\* depth_first_bnb: the head of the outer loop of depth_first, with the
\* branch pruned after a placement that cannot lead below best_score.
BnbLoopTop ==
    /\ pc = "loop"
    /\ algo = "bnb"
    /\ dfs_stack # <<>>
    /\ LET h == hash_fold(protein)
           improves == protein.cur_len = Len(sequence) /\ protein.score < best_score
           rem == IF protein.cur_len = Len(sequence) THEN <<>>
                  ELSE IF PruneBranch(protein, best_score) THEN <<>>
                  ELSE Without(all_moves, 0 - move)
       IN  /\ best_score' = IF improves THEN protein.score ELSE best_score
           /\ best_hash' = IF improves THEN h.fold ELSE best_hash
           /\ remaining_moves' = rem
           /\ pc' = IF improves /\ h.exc # "none" THEN Leave(h.exc)
                    ELSE AfterTry(FALSE, rem, dfs_stack)
    /\ placed_amino' = FALSE
    /\ UNCHANGED <<sequence, dim, protein, call, trail, misuse, algo, arg, arg_fresh,
                   move, all_moves, dfs_stack, prev_moves, dfs_out>>

\* depth_first, lines 99-110: one round of the loop over the remaining moves.
DfTryMove ==
    /\ pc = "try"
    /\ LET m == Last(remaining_moves)
           rem == Front(remaining_moves)
           valid == is_valid(protein, m)
           r == IF valid THEN place_amino(protein, m, TRUE) ELSE Ret(protein, "none")
           placed == valid /\ r.exc = "none"
           stack == IF placed THEN Append(dfs_stack, rem) ELSE dfs_stack
       IN  /\ move' = m
           /\ remaining_moves' = rem
           /\ protein' = r.p
           /\ call' = IF valid THEN <<"place_amino", m, TRUE, r.exc>>
                      ELSE <<"is_valid", m, FALSE, "none">>
           /\ dfs_stack' = stack
           /\ prev_moves' = IF placed THEN Append(prev_moves, m) ELSE prev_moves
           /\ placed_amino' = placed
           /\ pc' = IF r.exc # "none" THEN Leave(r.exc)
                    ELSE AfterTry(placed, rem, stack)
    /\ UNCHANGED <<sequence, dim, trail, misuse, algo, arg, arg_fresh, all_moves,
                   best_score, best_hash, dfs_out>>

\* One round of the backtracking loop without prev_moves.pop() (line 118).
DfBacktrackKeepsPrevMove ==
    /\ pc = "back"
    /\ LET rem == Last(dfs_stack)
           prev_move == Last(prev_moves)
           stack == Front(dfs_stack)
           r == remove_amino(protein, prev_move)
       IN  /\ remaining_moves' = rem
           /\ dfs_stack' = stack
           /\ prev_moves' = prev_moves
           /\ protein' = r.p
           /\ call' = <<"remove_amino", prev_move, FALSE, r.exc>>
           /\ pc' = IF r.exc # "none" THEN Leave(r.exc)
                    ELSE AfterBack(placed_amino, rem, stack)
    /\ UNCHANGED <<sequence, dim, trail, misuse, algo, arg, arg_fresh, move,
                   all_moves, best_score, best_hash, placed_amino, dfs_out>>

\* depth_first, lines 113-120: one round of the backtracking loop.
DfBacktrack ==
    /\ pc = "back"
    /\ LET rem == Last(dfs_stack)
           prev_move == Last(prev_moves)
           stack == Front(dfs_stack)
           r == remove_amino(protein, prev_move)
       IN  /\ remaining_moves' = rem
           /\ dfs_stack' = stack
           /\ prev_moves' = Front(prev_moves)
           /\ protein' = r.p
           /\ call' = <<"remove_amino", prev_move, FALSE, r.exc>>
           /\ pc' = IF r.exc # "none" THEN Leave(r.exc)
                    ELSE AfterBack(placed_amino, rem, stack)
    /\ UNCHANGED <<sequence, dim, trail, misuse, algo, arg, arg_fresh, move,
                   all_moves, best_score, best_hash, placed_amino, dfs_out>>

\* depth_first, lines 74 and 128-130: the outer loop is left, the best fold
\* is set and the Protein returned.
DfFinish ==
    /\ pc = "loop"
    /\ dfs_stack = <<>>
    /\ LET r == set_hash(protein, best_hash, FALSE)
       IN  /\ protein' = r.p
           /\ call' = <<"set_hash", best_hash, FALSE, r.exc>>
           /\ pc' = IF r.exc # "none" THEN Leave(r.exc) ELSE "returned"
    /\ UNCHANGED <<sequence, dim, trail, misuse, algo, arg, arg_fresh, move,
                   all_moves, dfs_stack, prev_moves, best_score, best_hash,
                   remaining_moves, placed_amino, dfs_out>>

----------------------------------------------------------------------------
(* The optimum by enumeration, for comparison with the drivers.            *)

\* The positions of the residues of a walk that starts at the origin.
RECURSIVE WalkPositions(_, _)
WalkPositions(fold, start) ==
    IF fold = <<>> THEN <<start>>
    ELSE <<start>> \o WalkPositions(Tail(fold), Step(start, Head(fold)))

SelfAvoiding(pos) == \A i, j \in 1..Len(pos) : i < j => pos[i] # pos[j]

\* The score of a complete walk: HHWeight for every pair of "H" residues at
\* least two apart in the sequence that lie on adjacent positions.
WalkScore(pos) ==
    HHWeight * Cardinality({ij \in (1..Len(pos)) \X (1..Len(pos)) :
                               /\ ij[2] >= ij[1] + 2
                               /\ sequence[ij[1]] = "H"
                               /\ sequence[ij[2]] = "H"
                               /\ Adjacent(pos[ij[1]], pos[ij[2]])})

\* The scores of all complete self-avoiding walks of the sequence.
WalkScores ==
    {WalkScore(WalkPositions(fold, Origin(dim))) :
        fold \in {f \in [1..(Len(sequence) - 1) -> Moves(dim)] :
                     SelfAvoiding(WalkPositions(f, Origin(dim)))}}

MinScore == CHOOSE x \in WalkScores : \A y \in WalkScores : x <= y

NextSearch ==
    \/ CallerReset
    \/ CallDepthFirst
    \/ CallDepthFirstBnb
    \/ DfPreamble
    \/ DfInitializeVars
    \/ DfLoopTop
    \/ BnbLoopTop
    \/ DfTryMove
    \/ DfBacktrack
    \/ DfFinish

SpecSearch == InitSearch /\ [][NextSearch]_vars

----------------------------------------------------------------------------
(* Properties of the Protein interface (specification Spec).               *)

\* The occupied positions.
Occupied(P) == DOMAIN P.space

\* score recomputed from the occupancy: HHWeight for every pair of entries
\* on adjacent positions whose indices are at least two apart and both "H".
RecomputedScore(P) ==
    HHWeight * Cardinality({pq \in Occupied(P) \X Occupied(P) :
                               /\ P.space[pq[2]][1] >= P.space[pq[1]][1] + 2
                               /\ is_hydro(P.space[pq[1]][1])
                               /\ is_hydro(P.space[pq[2]][1])
                               /\ Adjacent(pq[1], pq[2])})

\* C2: in every state reached by place_amino, remove_amino, reset,
\* reset_conformation and set_hash calls, score equals the sum of the bond
\* weights over the pairs of placed residues {i, j}, j >= i + 2, that lie on
\* adjacent positions, recomputed from the occupancy.
ScoreIsRecomputed == Alive => protein.score = RecomputedScore(protein)

\* C3: in every reachable state the occupancy holds exactly the residues
\* 0..cur_len-1, each at one position of its own, and residue i lies where
\* the outgoing move recorded on residue i-1 leads from residue i-1.
OccupancyIsChain ==
    Alive =>
        /\ {protein.space[p][1] : p \in Occupied(protein)} = 0..(protein.cur_len - 1)
        /\ \A p, q \in Occupied(protein) :
               p # q => protein.space[p][1] # protein.space[q][1]
        /\ \A p, q \in Occupied(protein) :
               protein.space[q][1] = protein.space[p][1] + 1 =>
                   /\ protein.space[p][2] # 0
                   /\ q = Step(p, protein.space[p][2])

\* C4: undo law. place_amino(m, track) that succeeds followed by
\* remove_amino(m) restores head, cur_len, score and the whole occupancy,
\* and changes grows by 1 exactly when track is set.
UndoLaw ==
    [][call'[1] = "place_remove" =>
          /\ call'[4] = "none"
          /\ protein'.last_pos = protein.last_pos
          /\ protein'.cur_len = protein.cur_len
          /\ protein'.score = protein.score
          /\ protein'.space = protein.space
          /\ protein'.changes = protein.changes + (IF call'[3] THEN 1 ELSE 0)]_vars

\* C5: round trip. set_hash(hash_fold()) leaves cur_len, head, score and the
\* occupancy as they were. Stated for the conformations that hold a residue:
\* set_hash always places residue 0, so on an empty conformation it cannot be
\* a no-op by design.
RoundTripIsNoOp ==
    [][(call'[1] = "round_trip" /\ protein.cur_len >= 1) =>
          /\ call'[4] = "none"
          /\ protein'.cur_len = protein.cur_len
          /\ protein'.last_pos = protein.last_pos
          /\ protein'.score = protein.score
          /\ protein'.space = protein.space]_vars

\* The moves recorded on the entries that lead onto the head's position: in
\* a chain this is the one incoming move of the head.
IncomingMoves(P) ==
    {P.space[p][2] : p \in {q \in Occupied(P) :
                              /\ P.space[q][2] # 0
                              /\ Step(q, P.space[q][2]) = P.last_pos}}

\* C9: head is the position of residue cur_len-1 and last_move its incoming
\* move (0 for a residue nothing leads to); with no residue placed head is
\* the origin and last_move is 0.
HeadIsLastResidue ==
    Alive =>
        IF protein.cur_len >= 1
        THEN /\ protein.last_pos \in Occupied(protein)
             /\ protein.space[protein.last_pos][1] = protein.cur_len - 1
             /\ IF IncomingMoves(protein) = {}
                THEN protein.last_move = 0
                ELSE protein.last_move \in IncomingMoves(protein)
        ELSE /\ protein.last_pos = Origin(dim)
             /\ protein.last_move = 0

\* C10: whenever cur_len = 0, right after construction in particular, the
\* occupancy has no entry.
EmptyWhenNoResidue ==
    (Alive /\ protein.cur_len = 0) => Occupied(protein) = {}

\* The empty conformation: no residue, no entry, head at the origin.
IsEmptyConformation(P) ==
    /\ P.cur_len = 0
    /\ Occupied(P) = {}
    /\ P.last_pos = Origin(dim)
    /\ P.last_move = 0
    /\ P.score = 0

\* C11: a set_hash(fold) call that fails because the fold is not
\* self-avoiding leaves the empty conformation: cur_len = 0, no occupancy
\* entry, head at the origin, last_move = 0, score = 0.
FailedSetHashLeavesEmpty ==
    (call[1] = "set_hash" /\ call[4] = "overlap") => IsEmptyConformation(protein)

\* C12: remove_amino(m) called with cur_len = 0, or with m other than
\* last_move, signals an error to the caller and changes neither cur_len,
\* head, score nor the occupancy.
RemoveAminoGuardsUnderflow ==
    [][(call'[1] = "remove_amino"
          /\ (protein.cur_len = 0 \/ call'[2] # protein.last_move)) =>
          /\ call'[4] \notin {"none", "ub"}
          /\ protein'.cur_len = protein.cur_len
          /\ protein'.last_pos = protein.last_pos
          /\ protein'.score = protein.score
          /\ protein'.space = protein.space]_vars

\* The caller's calls so far all succeeded: none failed, none took back a
\* move other than the one that placed the head, none ended the process.
OnlySuccessfulCalls == misuse = 0 /\ Alive

\* The incoming moves of residues 1..cur_len-1 in chain order, from the
\* caller's record of the moves that placed residues 0..cur_len-1.
IncomingMovesOfChain == IF trail = <<>> THEN <<>> ELSE Tail(trail)

\* max(0, k)
AtLeastZero(k) == IF k < 0 THEN 0 ELSE k

\* C13: in every state reached through successful place_amino, remove_amino
\* and set_hash calls, hash_fold() returns the incoming moves of residues
\* 1..cur_len-1 in chain order, a list of length max(0, cur_len - 1).
HashFoldIsIncomingMoves ==
    OnlySuccessfulCalls =>
        /\ hash_fold(protein).exc = "none"
        /\ Len(hash_fold(protein).fold) = AtLeastZero(protein.cur_len - 1)
        /\ hash_fold(protein).fold = IncomingMovesOfChain

\* On the conformations whose residue 0 was placed with the move 0 (which
\* the constructor's entry does not allow before a reset), and on the
\* conformations without any entry, hash_fold() does return the incoming
\* moves.
HashFoldAfterResetIsIncomingMoves ==
    (/\ OnlySuccessfulCalls
     /\ trail = <<>> => Occupied(protein) = {}
     /\ trail # <<>> => trail[1] = 0) =>
        /\ hash_fold(protein).exc = "none"
        /\ Len(hash_fold(protein).fold) = AtLeastZero(protein.cur_len - 1)
        /\ hash_fold(protein).fold = IncomingMovesOfChain

\* The number of place_amino calls that a set_hash call which left the
\* Protein P with the outcome exc has made.
PlacementsOfSetHash(P, exc) == P.cur_len + (IF exc = "none" THEN 0 ELSE 1)

\* C15: changes is modified only by place_amino with track = true, by 1 for
\* each call (set_hash makes one call for residue 0 and one for every move
\* it applies), and by reset, which sets it to 0; remove_amino,
\* reset_conformation, hash_fold and place_amino with track = false leave it
\* unchanged, and reset_conformation returns every other field to the empty
\* state. Stated for the calls that return or throw.
ChangesFrame ==
    [][call'[4] # "ub" =>
          /\ call'[1] = "place_amino" =>
                 protein'.changes = protein.changes + (IF call'[3] THEN 1 ELSE 0)
          /\ call'[1] = "place_remove" =>
                 protein'.changes = protein.changes + (IF call'[3] THEN 1 ELSE 0)
          /\ call'[1] = "set_hash" =>
                 protein'.changes = protein.changes +
                     (IF call'[3] THEN PlacementsOfSetHash(protein', call'[4]) ELSE 0)
          /\ call'[1] = "remove_amino" => protein'.changes = protein.changes
          /\ call'[1] = "round_trip" => protein'.changes = protein.changes
          /\ call'[1] = "reset" => protein'.changes = 0
          /\ call'[1] = "reset_conformation" =>
                 /\ protein'.changes = protein.changes
                 /\ IsEmptyConformation(protein')]_vars

\* C15, witness: reset_conformation was called while the counter was not
\* zero; the counter was kept and the conformation emptied.
ChangesKeptByResetConformation ==
    /\ call[1] = "reset_conformation"
    /\ protein.changes > 0
    /\ IsEmptyConformation(protein)

\* C16: a place_amino(m, track) call that fails because the target position
\* is occupied leaves the Protein as it was, changes and the outgoing move
\* of the head's entry included, so hash_fold() still returns the same fold.
FailedPlaceLeavesUnchanged ==
    [][(call'[1] = "place_amino" /\ call'[4] = "overlap") =>
          /\ protein' = protein
          /\ hash_fold(protein') = hash_fold(protein)
          /\ hash_fold(protein').exc = "none"]_vars

----------------------------------------------------------------------------
(* Properties of the drivers (specification SpecSearch).                   *)

\* A driver run has ended, one way or another.
Ended == pc \in {"returned", "threw", "crashed", "hung"}

\* Handed a Protein that was reset after construction, depth_first returns
\* a complete conformation of minimal score.
DepthFirstAfterResetOptimal ==
    (algo = "dfs" /\ ~arg_fresh /\ Ended /\ Len(sequence) >= 3) =>
        /\ pc = "returned"
        /\ protein.cur_len = Len(sequence)
        /\ protein.score = MinScore

\* C1: for a sequence of length n >= 3, depth_first applied to a freshly
\* constructed conformation returns a conformation with cur_len = n whose
\* score is the minimum over all complete self-avoiding walks.
DepthFirstOptimal ==
    (algo = "dfs" /\ arg_fresh /\ Ended /\ Len(sequence) >= 3) =>
        /\ pc = "returned"
        /\ protein.cur_len = Len(sequence)
        /\ protein.score = MinScore

\* C6: during a depth_first run on a freshly constructed conformation no
\* place_amino call of the driver targets an occupied position: the overlap
\* error is never raised.
DriverNeverOverlaps ==
    (algo = "dfs" /\ arg_fresh) => call[4] # "overlap"

\* C7: depth_first stops only once the frontier stack is empty and no move
\* remains, with set_hash(best_hash) applied and the conformation returned.
DepthFirstRunsToExhaustion ==
    (algo = "dfs" /\ Ended /\ Len(sequence) >= 3) =>
        /\ pc = "returned"
        /\ dfs_stack = <<>>
        /\ remaining_moves = <<>>
        /\ call = <<"set_hash", best_hash, FALSE, "none">>

\* The fold of P, set again with set_hash, gives the score of P.
FoldReproducesScore(P) ==
    LET h == hash_fold(P)
        r == set_hash(P, h.fold, FALSE)
    IN  /\ h.exc = "none"
        /\ r.exc = "none"
        /\ r.p.score = P.score

\* C8: depth_first_bnb returns a conformation with the same score as
\* depth_first, and the fold either driver returns reproduces that score
\* when it is set again with set_hash.
BnbAgreesWithDepthFirst ==
    (algo = "bnb" /\ Ended /\ dfs_out.pc = "returned") =>
        /\ pc = "returned"
        /\ protein.score = dfs_out.p.score
        /\ FoldReproducesScore(protein)
        /\ FoldReproducesScore(dfs_out.p)

\* C14: for a sequence shorter than 3 the driver returns without searching:
\* for n = 1 residue 0 alone is placed (cur_len = 1, score = 0, empty fold),
\* for n = 2 residues 0 and 1 are placed with the moves 0 and FirstMove
\* (cur_len = 2, score = 0, fold <<FirstMove>>).
ShortSequencesShortCircuit ==
    (algo = "dfs" /\ Ended /\ Len(sequence) < 3) =>
        /\ pc = "returned"
        /\ protein.cur_len = Len(sequence)
        /\ protein.score = 0
        /\ hash_fold(protein) =
               [fold |-> IF Len(sequence) = 2 THEN <<FirstMove>> ELSE <<>>,
                exc  |-> "none"]

\* Handed a Protein that was reset after construction, the driver does
\* return the short conformations without searching.
ShortSequencesAfterResetShortCircuit ==
    (algo = "dfs" /\ Ended /\ Len(sequence) < 3 /\ ~arg_fresh) =>
        /\ pc = "returned"
        /\ protein.cur_len = Len(sequence)
        /\ protein.score = 0
        /\ hash_fold(protein) =
               [fold |-> IF Len(sequence) = 2 THEN <<FirstMove>> ELSE <<>>,
                exc  |-> "none"]

\* The driver is inside its search loop.
Searching == pc \in {"loop", "try", "back"}

\* The walk that places every residue after residue 0 with FirstMove.
StraightWalk == [k \in 1..(Len(sequence) - 1) |-> FirstMove]

\* C17: during a depth_first run best_score starts at 1 and never increases;
\* best_hash and best_score are replaced only at a complete walk whose score
\* is strictly less than best_score, by the fold and the score of that walk;
\* the fold returned is best_hash, the first walk found with the least
\* score, which is the straight seeded walk when the optimum is 0.
BestFoldIsFirstBest ==
    [][(algo = "dfs" /\ algo' = "dfs") =>
          /\ (pc = "init" /\ Searching') =>
                 /\ best_score' = 1
                 /\ best_hash' = <<>>
          /\ Searching =>
                 /\ best_score' <= best_score
                 /\ (best_hash' # best_hash \/ best_score' # best_score) =>
                        /\ protein.cur_len = Len(sequence)
                        /\ protein.score < best_score
                        /\ best_score' = protein.score
                        /\ best_hash' = hash_fold(protein).fold
          /\ (Searching /\ pc' = "returned") =>
                 /\ hash_fold(protein').fold = best_hash
                 /\ protein'.score = best_score
                 /\ MinScore = 0 => best_hash = StraightWalk]_vars

\* C17, witness: depth_first has returned a fold that replaced the seeded
\* walk, found later in the enumeration with a strictly lower score.
ReturnedLaterBetterFold ==
    /\ algo = "dfs"
    /\ pc = "returned"
    /\ Len(sequence) >= 3
    /\ best_score < 0
    /\ best_hash # StraightWalk
    /\ hash_fold(protein).fold = best_hash

\* The elements of a vector.
Elements(s) == {s[i] : i \in 1..Len(s)}

\* After seeding: both stacks hold an entry for each of the residues
\* 2..n-1, every frontier is the move set frontier, every incoming move is
\* FirstMove, and the residues 2..n-1 were placed with FirstMove.
SeededWith(P, stack, moves, frontier) ==
    /\ Len(stack) = Len(sequence) - 2
    /\ Len(moves) = Len(sequence) - 2
    /\ \A k \in 1..Len(stack) :
           /\ Elements(stack[k]) = frontier
           /\ Len(stack[k]) = Cardinality(frontier)
    /\ \A k \in 1..Len(moves) : moves[k] = FirstMove
    /\ P.cur_len = Len(sequence)
    /\ hash_fold(P).fold = StraightWalk

\* C18 as stated: after seeding, the frontier pushed for every residue
\* 2..n-1 is the full non-zero move set {-d..-1, 1..d} without FirstMove.
SeedingPushesFullFrontier ==
    [][(pc = "init" /\ pc' = "loop") =>
          SeededWith(protein', dfs_stack', prev_moves', Moves(dim) \ {FirstMove})]_vars

\* C18, amended: after seeding, the frontier pushed for every residue 2..n-1
\* is the set of positive moves {1..d} without FirstMove; each of these
\* residues was placed with FirstMove, FirstMove was pushed on the
\* incoming-move stack once per residue, both stacks hold n-2 entries and
\* cur_len = n.
SeedingPushesPositiveFrontier ==
    [][(pc = "init" /\ pc' = "loop") =>
          SeededWith(protein', dfs_stack', prev_moves', (1..dim) \ {FirstMove})]_vars

\* C18, witness: the state right after seeding on the cubic lattice (the
\* n placements so far are the only ones counted in changes).
SeededOnCubicLattice ==
    /\ algo = "dfs"
    /\ pc = "loop"
    /\ dim = 3
    /\ Len(sequence) >= 4
    /\ protein.changes = Len(sequence)
    /\ Len(dfs_stack) = Len(sequence) - 2
    /\ dfs_stack[1] = <<1, 3>>

\* The complete self-avoiding walks that extend the walk of P.
Completions(P) ==
    {c \in {hash_fold(P).fold \o ext :
               ext \in [1..(Len(sequence) - P.cur_len) -> Moves(dim)]} :
        SelfAvoiding(WalkPositions(c, Origin(dim)))}

\* C19: admissibility of the table. In every state of a depth_first_bnb
\* search, score + max_remaining_bonds[cur_len] is at most the score of
\* every complete self-avoiding walk that extends the current walk.
BoundIsAdmissible ==
    (algo = "bnb" /\ Searching) =>
        \A c \in Completions(protein) :
            2 * protein.score + TwiceMaxRemainingBonds(protein.cur_len)
                <= 2 * WalkScore(WalkPositions(c, Origin(dim)))

\* C20 as stated: at every point of a depth_first run the two stacks hold
\* the same number of entries and their sizes sum to at most n.
StacksSumBoundedByLength ==
    algo = "dfs" =>
        /\ Len(dfs_stack) = Len(prev_moves)
        /\ Len(dfs_stack) + Len(prev_moves) <= Len(sequence)

\* C20, amended: at every point of a depth_first run, between the rounds of
\* its loops, the two stacks hold the same number of entries, and each holds
\* at most n - 2 of them (one for every residue after the first two).
StacksInStep ==
    algo = "dfs" =>
        /\ Len(dfs_stack) = Len(prev_moves)
        /\ Len(dfs_stack) <= AtLeastZero(Len(sequence) - 2)

\* C20, witness: the search backtracks with both stacks full, on a sequence
\* long enough for their sizes to sum to more than n.
BacktrackingWithFullStacks ==
    /\ algo = "dfs"
    /\ pc = "back"
    /\ Len(sequence) >= 5
    /\ Len(dfs_stack) = Len(sequence) - 2
    /\ Len(prev_moves) = Len(sequence) - 2

====
